---- MODULE Spec2Model ----
(***************************************************************************)
(* Model of the loomify job store (src/src/services/pipeline/job-store.ts) *)
(* and of the two pipeline runners it drives (processLoomVideo and         *)
(* downloadAndTranscribe).  The program runs on one JavaScript event loop: *)
(* an action of this module is one synchronous block of the code, from the *)
(* resumption after an await (or from a call of submit / submitMerge) to   *)
(* the next await.                                                         *)
(*                                                                         *)
(* Strings of the source that hold non-ASCII letters are transliterated.   *)
(* A text (message, error, transcript) is a sequence of strings and string *)
(* concatenation is \o.  An optional field of a Job (result, error,        *)
(* parentJobId, childJobIds) is a field that the record may lack.          *)
(***************************************************************************)
EXTENDS Integers, Sequences, FiniteSets, TLC

\* Bounds of the model.
MaxJobs == 4
MaxUrls == 3

\* job-store.ts line 6.
MAX_CONCURRENT == 2

\* The locators a submission draws from: its list is a prefix of this one.
\* A locator is what the /loom\.com\/(?:share|embed)\/([a-zA-Z0-9]+)/ match of
\* checkMergeCompletion reads of it.
Locator(n) ==
    IF n % 3 = 1 THEN [site |-> "loom.com", kind |-> "share", id |-> "a"]
    ELSE IF n % 3 = 2 THEN [site |-> "loom.com", kind |-> "embed", id |-> "b"]
    ELSE [site |-> "example.org", kind |-> "watch", id |-> "c"]

UrlList(n) == [i \in 1..n |-> Locator(i)]

\* ApiKeys values (types.ts ApiKeys): two different credential bags; the
\* callers alternate between them.
KeySet == {[geminiKey |-> "gem-0", gammaKey |-> "gam-0"],
           [geminiKey |-> "gem-1", gammaKey |-> "gam-1"]}
KeysOf(t) == [geminiKey |-> IF t % 2 = 0 THEN "gem-0" ELSE "gem-1",
              gammaKey |-> IF t % 2 = 0 THEN "gam-0" ELSE "gam-1"]

\* What the collaborators may answer.
\* transcribeVideo's text for the video at a locator.
Transcript(url) == <<"text-" \o url.id>>
GammaUrl == "https://gamma.app/docs/x"
DownloadError == <<"Video-Download fehlgeschlagen">>
TranscribeError == <<"Transkription fehlgeschlagen">>
GenerateError == <<"Gamma Praesentationserstellung fehlgeschlagen">>
\* The retryable flag of the ProcessingError that carries a message; the
\* error of fs.unlink is no ProcessingError and has no flag.
retryable(message) == message \in {DownloadError, TranscribeError, GenerateError}
\* The message of the error fs.unlink rejects with.
UnlinkError == <<"EACCES: permission denied, unlink">>
\* Whether fs.unlink of the file downloaded for a locator succeeds: like the
\* transcript, a function of the video; the file of one of the three videos
\* cannot be removed.
unlinkOk(url) == url.kind # "embed"

Terminal == {"completed", "failed"}
InFlight == {"downloading", "transcribing", "generating"}

VARIABLES
    jobs,         \* JobStore.jobs: the table, in insertion order; the id is the index
    activeCount,  \* JobStore.activeCount
    queue,        \* JobStore.queue
    now,          \* the clock new Date() reads
    pc,           \* per job: the await its runner (or merge check) is suspended at
    loc,          \* per job: the locals of its runner
    hist,         \* per job: every status it was given, in order (history)
    calls,        \* per job: how often each collaborator was invoked (history)
    synthInput,   \* per job: the text of the last createPresentation call (history)
    finished,     \* the ids of the merge children whose runner has returned, in that
                  \* order (history)
    settled,      \* how many awaited calls have settled so far (history)
    poll          \* one wait on a remote operation (the polling loop of
                  \* transcribeVideo or pollForCompletion), looked at on its own

vars == <<jobs, activeCount, queue, now, pc, loc, hist, calls, synthInput, finished,
          settled, poll>>

\* The whole state as one value, so that a synchronous block is a composition
\* of functions on it.
Cur == [jobs |-> jobs, activeCount |-> activeCount, queue |-> queue, now |-> now,
        pc |-> pc, loc |-> loc, hist |-> hist, calls |-> calls,
        synthInput |-> synthInput, finished |-> finished]

Becomes(st) ==
    /\ jobs' = st.jobs
    /\ activeCount' = st.activeCount
    /\ queue' = st.queue
    /\ now' = st.now
    /\ pc' = st.pc
    /\ loc' = st.loc
    /\ hist' = st.hist
    /\ calls' = st.calls
    /\ synthInput' = st.synthInput
    /\ finished' = st.finished
    /\ poll' = poll

----------------------------------------------------------------------------
\* Helpers for JavaScript values.

\* obj.f = v, for a field the object may not have yet.
SetField(r, f, v) == [x \in (DOMAIN r) \cup {f} |-> IF x = f THEN v ELSE r[x]]

\* a || b on texts: the empty string is falsy.
\* (OrElseSwapped: b || a.)
OrElseSwapped(a, b) == IF b = <<>> THEN a ELSE b
OrElse(a, b) == IF a = <<>> THEN b ELSE a

\* Math.round(num / den) for num >= 0, den > 0: floor(x + 1/2).
\* (MathFloor: Math.floor for Math.round.)
MathFloor(num, den) == num \div den
MathRound(num, den) == (2 * num + den) \div (2 * den)

NoLocals == [downloadResult |-> FALSE, transcript |-> <<>>, caught |-> <<>>,
             success |-> FALSE, presentationUrl |-> ""]

NoCalls == [run |-> 0, download |-> 0, transcribe |-> 0, cleanup |-> 0, synth |-> 0]

----------------------------------------------------------------------------
\* The status callbacks of runJob and runMergeChild.

\* (statusMapNoGenerate: the generate entry is missing from runJob's map.)
statusMapNoGenerate(mode) ==
    [download |-> "downloading", transcribe |-> "transcribing"]

statusMap(mode) ==
    IF mode = "merge-child"
    THEN [download |-> "downloading", transcribe |-> "transcribing"]
    ELSE [download |-> "downloading", transcribe |-> "transcribing",
          generate |-> "generating"]

\* stageWeights with the generate entry copied from the transcribe entry.
stageWeightsCopied(mode) ==
    IF mode = "merge-child"
    THEN [download |-> [base |-> 0, weight |-> 50],
          transcribe |-> [base |-> 50, weight |-> 50]]
    ELSE [download |-> [base |-> 0, weight |-> 30],
          transcribe |-> [base |-> 30, weight |-> 40],
          generate |-> [base |-> 30, weight |-> 40]]

\* (stageWeightsOfRunJob: runMergeChild with the weights of runJob.)
stageWeightsOfRunJob(mode) ==
    [download |-> [base |-> 0, weight |-> 30],
     transcribe |-> [base |-> 30, weight |-> 40],
     generate |-> [base |-> 70, weight |-> 30]]

\* (stageWeightsOverlapping: the last stage of runJob with the weight of the
\* one before it.)
stageWeightsOverlapping(mode) ==
    IF mode = "merge-child"
    THEN [download |-> [base |-> 0, weight |-> 50],
          transcribe |-> [base |-> 50, weight |-> 50]]
    ELSE [download |-> [base |-> 0, weight |-> 30],
          transcribe |-> [base |-> 30, weight |-> 40],
          generate |-> [base |-> 70, weight |-> 40]]

stageWeights(mode) ==
    IF mode = "merge-child"
    THEN [download |-> [base |-> 0, weight |-> 50],
          transcribe |-> [base |-> 50, weight |-> 50]]
    ELSE [download |-> [base |-> 0, weight |-> 30],
          transcribe |-> [base |-> 30, weight |-> 40],
          generate |-> [base |-> 70, weight |-> 30]]

\* job.status = s, recorded in the history when it changes the status.
SetStatus(st, j, s) ==
    [st EXCEPT !.jobs[j].status = s,
               !.hist[j] = IF st.jobs[j].status = s THEN @ ELSE Append(@, s)]

\* (onStatusSharedMessage: the message is also written to every other job
\* that is in flight.)
onStatusSharedMessage(st, j, stage, progress, message) ==
    LET job == st.jobs[j]
        sm == statusMap(job.mode)
        sw == stageWeights(job.mode)
        s1 == SetStatus(st, j, IF stage \in DOMAIN sm THEN sm[stage] ELSE job.status)
        p == IF stage \in DOMAIN sw
             THEN MathRound(sw[stage].base * 100 + progress * sw[stage].weight, 100)
             ELSE job.progress
    IN [s1 EXCEPT !.jobs = [k \in DOMAIN s1.jobs |->
                               IF k = j
                               THEN [s1.jobs[k] EXCEPT !.message = message, !.progress = p]
                               ELSE IF s1.jobs[k].status \in InFlight
                               THEN [s1.jobs[k] EXCEPT !.message = message]
                               ELSE s1.jobs[k]]]

onStatus(st, j, stage, progress, message) ==
    LET job == st.jobs[j]
        sm == statusMap(job.mode)
        sw == stageWeights(job.mode)
        s1 == SetStatus(st, j, IF stage \in DOMAIN sm THEN sm[stage] ELSE job.status)
        p == IF stage \in DOMAIN sw
             THEN MathRound(sw[stage].base * 100 + progress * sw[stage].weight, 100)
             ELSE job.progress
    IN [s1 EXCEPT !.jobs[j].message = message, !.jobs[j].progress = p]

----------------------------------------------------------------------------
\* processLoomVideo / downloadAndTranscribe up to their first await, run
\* synchronously by runJob / runMergeChild inside processQueue.
StartRunner(st, j) ==
    LET s1 == onStatus(st, j, "download", 0, <<"Starte Video-Download von Loom...">>)
    IN [s1 EXCEPT !.pc[j] = "download",
                  !.calls[j].run = @ + 1,
                  !.calls[j].download = @ + 1]

\* this.queue.shift(): what is left of the queue.  (shiftNothing: the head
\* is read and not removed.)
shiftNothing(q) == q
shift(q) == Tail(q)

\* this.activeCount < MAX_CONCURRENT, the loop's capacity test.
\* (hasCapacityOffByOne: <= for <.)
hasCapacityOffByOne(st) == st.activeCount <= MAX_CONCURRENT
\* (hasCapacityOneLess: the last slot is never used.)
hasCapacityOneLess(st) == st.activeCount < MAX_CONCURRENT - 1
hasCapacity(st) == st.activeCount < MAX_CONCURRENT

\* (processQueueSkipsAbandoned: a child whose parent is failed already is
\* dropped like a merge parent.)
RECURSIVE processQueueSkipsAbandoned(_)
processQueueSkipsAbandoned(st) ==
    IF hasCapacity(st) /\ Len(st.queue) > 0
    THEN LET jobId == Head(st.queue)
             s1 == [st EXCEPT !.queue = shift(@)]
         IN IF jobId \notin DOMAIN s1.jobs THEN processQueueSkipsAbandoned(s1)
            ELSE IF s1.jobs[jobId].mode = "merge-parent"
            THEN processQueueSkipsAbandoned(s1)
            ELSE IF /\ s1.jobs[jobId].mode = "merge-child"
                    /\ s1.jobs[s1.jobs[jobId].parentJobId].status = "failed"
            THEN processQueueSkipsAbandoned(s1)
            ELSE processQueueSkipsAbandoned(
                     StartRunner([s1 EXCEPT !.activeCount = @ + 1], jobId))
    ELSE st

RECURSIVE processQueue(_)
processQueue(st) ==
    IF hasCapacity(st) /\ Len(st.queue) > 0
    THEN LET jobId == Head(st.queue)
             s1 == [st EXCEPT !.queue = shift(@)]
         IN IF jobId \notin DOMAIN s1.jobs THEN processQueue(s1)
            ELSE IF s1.jobs[jobId].mode = "merge-parent" THEN processQueue(s1)
            ELSE processQueue(StartRunner([s1 EXCEPT !.activeCount = @ + 1], jobId))
    ELSE st

----------------------------------------------------------------------------
\* submit and submitMerge.

NewJob(id, url, keys, mode, createdAt, message) ==
    [id |-> id, url |-> url, keys |-> keys, mode |-> mode, status |-> "queued", progress |-> 0,
     message |-> message, createdAt |-> createdAt]

\* this.jobs.set(id, job) for a fresh id, with the model's bookkeeping for it.
AddJob(st, job) ==
    [st EXCEPT !.jobs = Append(@, job),
               !.pc = Append(@, "none"),
               !.loc = Append(@, NoLocals),
               !.hist = Append(@, <<"queued">>),
               !.calls = Append(@, NoCalls),
               !.synthInput = Append(@, <<>>)]

\* (submitLoopUnshift: this.queue.unshift(job.id) for push.)
RECURSIVE submitLoopUnshift(_, _, _, _)
submitLoopUnshift(st, urls, keys, i) ==
    IF i > Len(urls) THEN st
    ELSE LET job == NewJob(Len(st.jobs) + 1, urls[i], keys, "individual", st.now,
                           <<"In Warteschlange...">>)
             s1 == AddJob(st, job)
         IN submitLoopUnshift([s1 EXCEPT !.queue = <<Len(s1.jobs)>> \o @],
                              urls, keys, i + 1)

\* (submitLoopPushTwice: the id is pushed onto the queue twice.)
RECURSIVE submitLoopPushTwice(_, _, _, _)
submitLoopPushTwice(st, urls, keys, i) ==
    IF i > Len(urls) THEN st
    ELSE LET job == NewJob(Len(st.jobs) + 1, urls[i], keys, "individual", st.now,
                           <<"In Warteschlange...">>)
             s1 == AddJob(st, job)
         IN submitLoopPushTwice([s1 EXCEPT !.queue = @ \o <<Len(s1.jobs), Len(s1.jobs)>>],
                                urls, keys, i + 1)

RECURSIVE submitLoop(_, _, _, _)
submitLoop(st, urls, keys, i) ==
    IF i > Len(urls) THEN st
    ELSE LET job == NewJob(Len(st.jobs) + 1, urls[i], keys, "individual", st.now,
                           <<"In Warteschlange...">>)
             s1 == AddJob(st, job)
         IN submitLoop([s1 EXCEPT !.queue = Append(@, Len(s1.jobs))], urls, keys, i + 1)

\* (submitNoDispatch: the jobs are queued and processQueue is not called.)
submitNoDispatch(st, urls, keys) == submitLoop(st, urls, keys, 1)

submit(st, urls, keys) == processQueue(submitLoop(st, urls, keys, 1))

RECURSIVE submitMergeLoop(_, _, _, _, _)
submitMergeLoop(st, urls, keys, parentId, i) ==
    IF i > Len(urls) THEN st
    ELSE LET child == SetField(NewJob(Len(st.jobs) + 1, urls[i], keys, "merge-child",
                                      st.now, <<"In Warteschlange...">>),
                               "parentJobId", parentId)
             s1 == AddJob(st, child)
         IN submitMergeLoop([s1 EXCEPT !.queue = Append(@, Len(s1.jobs))],
                            urls, keys, parentId, i + 1)

\* (submitMergeEnqueuesParent: the parent is pushed onto the queue like a child.)
submitMergeEnqueuesParent(st, urls, keys) ==
    LET n == Len(st.jobs)
        parentId == n + Len(urls) + 1
        s1 == submitMergeLoop(st, urls, keys, parentId, 1)
        childIds == [i \in 1..Len(urls) |-> n + i]
        parent == SetField(NewJob(parentId,
                                  [text |-> <<ToString(Len(urls)),
                                              " Videos zusammenfuehren">>],
                                  keys, "merge-parent", s1.now,
                                  <<"Warte auf Transkriptionen...">>),
                           "childJobIds", childIds)
    IN processQueue([AddJob(s1, parent) EXCEPT !.queue = Append(@, parentId)])

\* (submitMergeSettlesEmpty: a merge of no video is failed at once.)
submitMergeSettlesEmpty(st, urls, keys) ==
    LET n == Len(st.jobs)
        parentId == n + Len(urls) + 1
        s1 == submitMergeLoop(st, urls, keys, parentId, 1)
        childIds == [i \in 1..Len(urls) |-> n + i]
        parent == SetField(NewJob(parentId,
                                  [text |-> <<ToString(Len(urls)),
                                              " Videos zusammenfuehren">>],
                                  keys, "merge-parent", s1.now,
                                  <<"Warte auf Transkriptionen...">>),
                           "childJobIds", childIds)
    IN IF Len(urls) = 0
       THEN processQueue(SetStatus(AddJob(s1, parent), parentId, "failed"))
       ELSE processQueue(AddJob(s1, parent))

submitMerge(st, urls, keys) ==
    LET n == Len(st.jobs)
        parentId == n + Len(urls) + 1
        s1 == submitMergeLoop(st, urls, keys, parentId, 1)
        childIds == [i \in 1..Len(urls) |-> n + i]
        parent == SetField(NewJob(parentId,
                                  [text |-> <<ToString(Len(urls)),
                                              " Videos zusammenfuehren">>],
                                  keys, "merge-parent", s1.now,
                                  <<"Warte auf Transkriptionen...">>),
                           "childJobIds", childIds)
    IN processQueue(AddJob(s1, parent))

----------------------------------------------------------------------------
\* checkMergeCompletion, up to its await of createPresentation.

Children(st, parentId) == st.jobs[parentId].childJobIds

\* children.find((c) => c.status === 'failed'): the index in childJobIds of the
\* first failed child, 0 when there is none.
\* (failedChildWrongStatus: the comparison is with a status no job ever has.)
failedChildWrongStatus(st, parentId) ==
    LET ch == Children(st, parentId)
        F == {i \in 1..Len(ch) : st.jobs[ch[i]].status = "error"}
    IN IF F = {} THEN 0 ELSE CHOOSE i \in F : \A k \in F : i <= k

\* (failedChildWhenAllSettled: a failed child is looked for only once no child
\* is queued or running any more.)
failedChildWhenAllSettled(st, parentId) ==
    LET ch == Children(st, parentId)
        F == {i \in 1..Len(ch) : st.jobs[ch[i]].status = "failed"}
    IN IF F = {} \/ \E i \in 1..Len(ch) : st.jobs[ch[i]].status \notin Terminal
       THEN 0
       ELSE CHOOSE i \in F : \A k \in F : i <= k

\* (failedChildFirstInTime: the failed child whose runner returned first.)
failedChildFirstInTime(st, parentId) ==
    LET ch == Children(st, parentId)
        isFailedChild(c) == /\ \E i \in 1..Len(ch) : ch[i] = c
                            /\ st.jobs[c].status = "failed"
        fin == SelectSeq(st.finished, isFailedChild)
    IN IF fin = <<>> THEN 0 ELSE CHOOSE i \in 1..Len(ch) : ch[i] = fin[1]

failedChild(st, parentId) ==
    LET ch == Children(st, parentId)
        F == {i \in 1..Len(ch) : st.jobs[ch[i]].status = "failed"}
    IN IF F = {} THEN 0 ELSE CHOOSE i \in F : \A k \in F : i <= k

\* children.every((c) => c.status === 'completed')
allDone(st, parentId) ==
    \A i \in 1..Len(Children(st, parentId)) :
        st.jobs[Children(st, parentId)[i]].status = "completed"

\* (completedCountStarted: the children that are not queued are counted.)
completedCountStarted(st, parentId) ==
    Cardinality({i \in 1..Len(Children(st, parentId)) :
                    st.jobs[Children(st, parentId)[i]].status # "queued"})

completedCount(st, parentId) ==
    Cardinality({i \in 1..Len(Children(st, parentId)) :
                    st.jobs[Children(st, parentId)[i]].status = "completed"})

\* child.url.match(/loom\.com\/(?:share|embed)\/([a-zA-Z0-9]+)/)?.[1] || `Video ${i + 1}`
\* for the child at index i (from 1 here, from 0 in the source).
videoId(url, i) ==
    IF url.site = "loom.com" /\ url.kind \in {"share", "embed"} /\ url.id # ""
    THEN <<url.id>>
    ELSE <<"Video ", ToString(i)>>

\* `--- Video ${i + 1} (${videoId}) ---\n${child.result!.transcript}`
\* (labelledWithoutHeader: the transcript alone.)
labelledWithoutHeader(st, childId, i) == st.jobs[childId].result.transcript

labelled(st, childId, i) ==
    <<"--- Video ", ToString(i), " (">> \o videoId(st.jobs[childId].url, i)
        \o <<") ---\n">> \o st.jobs[childId].result.transcript

\* The order in which the children's texts are combined: children is
\* parent.childJobIds mapped to the jobs.  (childOrderByCompletion: the
\* children in the order in which they finished.)
childOrderByCompletion(st, parentId) ==
    SelectSeq(st.finished,
              LAMBDA c : \E i \in 1..Len(Children(st, parentId)) :
                            Children(st, parentId)[i] = c)

childOrder(st, parentId) == Children(st, parentId)

RECURSIVE joinFrom(_, _, _)
joinFrom(st, ch, i) ==
    IF i > Len(ch) THEN <<>>
    ELSE (IF i > 1 THEN <<"\n\n">> ELSE <<>>) \o labelled(st, ch[i], i)
             \o joinFrom(st, ch, i + 1)

combinedTranscript(st, parentId) == joinFrom(st, childOrder(st, parentId), 1)

checkMergeCompletion(st, parentId) ==
    IF parentId \notin DOMAIN st.jobs \/ "childJobIds" \notin DOMAIN st.jobs[parentId]
    THEN st
    ELSE LET f == failedChild(st, parentId)
             n == Len(Children(st, parentId))
         IN IF f # 0
            THEN LET err == <<"Video fehlgeschlagen: ">>
                                \o st.jobs[Children(st, parentId)[f]].error
                     s1 == SetStatus(st, parentId, "failed")
                 IN [s1 EXCEPT !.jobs[parentId] =
                        SetField([@ EXCEPT !.message = err], "error", err)]
            ELSE IF ~allDone(st, parentId)
            THEN LET k == completedCount(st, parentId)
                 IN [st EXCEPT !.jobs[parentId].progress = MathRound(k * 70, n),
                               !.jobs[parentId].message =
                                   <<"Transkription ", ToString(k), "/", ToString(n),
                                     " fertig...">>]
            ELSE LET s1 == SetStatus(st, parentId, "generating")
                 IN [s1 EXCEPT !.jobs[parentId].progress = 75,
                               !.jobs[parentId].message =
                                   <<"Erstelle Praesentation aus allen Transkripten...">>,
                               !.pc[parentId] = "generate",
                               !.calls[parentId].synth = @ + 1,
                               !.synthInput[parentId] = combinedTranscript(st, parentId)]

----------------------------------------------------------------------------
\* The finally blocks of the two runners.

\* (finallyRunJobNoDispatch: the slot is freed and the queue is not looked at.)
finallyRunJobNoDispatch(st, j) == [st EXCEPT !.activeCount = @ - 1]
\* (finallyRunJobRetries: a failed job is put back on the queue.)
finallyRunJobRetries(st, j) ==
    processQueue([st EXCEPT !.activeCount = @ - 1,
                            !.queue = IF st.jobs[j].status = "failed"
                                      THEN Append(@, j) ELSE @])

finallyRunJob(st, j) == processQueue([st EXCEPT !.activeCount = @ - 1])

\* (finallyRunMergeChildNoCheck: the parent is not looked at.)
finallyRunMergeChildNoCheck(st, j) == processQueue([st EXCEPT !.activeCount = @ - 1])

\* (finallyRunMergeChildChecksTwice: the parent is looked at twice.)
finallyRunMergeChildChecksTwice(st, j) ==
    processQueue(checkMergeCompletion(
                     checkMergeCompletion([st EXCEPT !.activeCount = @ - 1],
                                          st.jobs[j].parentJobId),
                     st.jobs[j].parentJobId))

finallyRunMergeChild(st, j) ==
    processQueue(checkMergeCompletion([st EXCEPT !.activeCount = @ - 1],
                                      st.jobs[j].parentJobId))

----------------------------------------------------------------------------
\* The read operations, as functions of the table, and the HTTP handlers
\* that serve them.

\* getJob(id): the Job object itself; undefined is the object with no field.
getJob(tbl, id) == IF id \in DOMAIN tbl THEN tbl[id] ELSE <<>>

\* GET /api/jobs/[jobId]: NextResponse.json({ job }), or 404.
GETJob(tbl, id) ==
    IF id \notin DOMAIN tbl
    THEN [status |-> 404, body |-> [error |-> <<"Job nicht gefunden">>]]
    ELSE [status |-> 200, body |-> [job |-> getJob(tbl, id)]]

\* The comparator of getAllJobs: (a, b) => b.createdAt - a.createdAt.
\* (compareAscending: the operands swapped.)
compareAscending(a, b) == a.createdAt - b.createdAt
compareCreatedAt(a, b) == b.createdAt - a.createdAt

\* Array.prototype.sort with that comparator: a stable sort.
RECURSIVE insertSorted(_, _)
insertSorted(x, s) ==
    IF s = <<>> THEN <<x>>
    ELSE IF compareCreatedAt(Head(s), x) <= 0
         THEN <<Head(s)>> \o insertSorted(x, Tail(s))
         ELSE <<x>> \o s

RECURSIVE sortJobs(_)
sortJobs(s) ==
    IF s = <<>> THEN <<>>
    ELSE insertSorted(s[Len(s)], sortJobs(SubSeq(s, 1, Len(s) - 1)))

\* ({ keys: _keys, ...job }) => ({ ...job, result: job.result ?
\*     { presentationUrl: job.result.presentationUrl } : undefined })
\* A field set to undefined is a field the serialised summary lacks.
summary(job) ==
    LET rest == [x \in (DOMAIN job) \ {"keys", "result"} |-> job[x]]
    IN IF "result" \in DOMAIN job
       THEN SetField(rest, "result",
                     [presentationUrl |-> job.result.presentationUrl])
       ELSE rest

getAllJobs(tbl) ==
    LET sorted == sortJobs(tbl)
    IN [i \in 1..Len(sorted) |-> summary(sorted[i])]

\* GET /api/jobs: NextResponse.json({ jobs }).
GETJobs(tbl) == [status |-> 200, body |-> [jobs |-> getAllJobs(tbl)]]

----------------------------------------------------------------------------
\* The two waits on a remote operation: the polling loop of transcribeVideo
\* (transcriber.ts 45-71) and pollForCompletion (generator.ts 74-114).  A wait
\* is looked at on its own, from the first status check to its result:
\*   kind      which loop it is
\*   at        the await the loop is suspended at ("check", "delay"), or "done"
\*   attempts  the loop's variable attempts
\*   checks    how often the status check was invoked (history)
\*   sleeps    how often delay(POLLING_INTERVAL) was awaited (history)
\*   code      the result: "" while waiting, "success", or the code of the
\*             ProcessingError thrown
\*   last      what the last status check answered: "pending", "succeeded",
\*             "failed" or "rejected" (history)
\*   pendings  how many status checks answered pending (history)

\* transcriber.ts line 18 and generator.ts line 5: both are named
\* MAX_POLLING_ATTEMPTS in their file.
MAX_POLLING_ATTEMPTS_transcriber == 60
MAX_POLLING_ATTEMPTS_generator == 60

NoWait == [kind |-> "none", at |-> "done", attempts |-> 0, checks |-> 0, sleeps |-> 0,
           code |-> "", last |-> "", pendings |-> 0]

\* What a status check may answer.  getFile: the file's state, or a rejection.
FileStates == {"PROCESSING", "ACTIVE", "FAILED"}
\* GET /generations/id: data.status with or without a URL, or a rejection
\* with or without an HTTP response.
GammaAnswers == {[status |-> "pending", url |-> FALSE],
                 [status |-> "completed", url |-> TRUE],
                 [status |-> "completed", url |-> FALSE],
                 [status |-> "failed", url |-> FALSE]}
GammaRejections == {[response |-> TRUE, status |-> 401],
                    [response |-> TRUE, status |-> 402],
                    [response |-> TRUE, status |-> 429],
                    [response |-> TRUE, status |-> 500],
                    [response |-> FALSE, status |-> 0]}

\* (handleGammaErrorReturns: an error without a response is logged and not
\* thrown; "" stands for returning to the caller.)
handleGammaErrorReturns(error) ==
    IF error.response
    THEN IF error.status = 401 THEN "AUTH_FAILED"
         ELSE IF error.status = 402 THEN "INSUFFICIENT_CREDITS"
         ELSE IF error.status = 429 THEN "RATE_LIMITED"
         ELSE "API_ERROR"
    ELSE ""

\* handleGammaError: the code of the ProcessingError it throws.
handleGammaError(error) ==
    IF error.response
    THEN IF error.status = 401 THEN "AUTH_FAILED"
         ELSE IF error.status = 402 THEN "INSUFFICIENT_CREDITS"
         ELSE IF error.status = 429 THEN "RATE_LIMITED"
         ELSE "API_ERROR"
    ELSE "UNKNOWN_ERROR"

\* transcribeLoop, were it to go on polling a file that is not ACTIVE.
transcribeLoopPollsOnFailed(w, state) ==
    IF state # "ACTIVE" /\ w.attempts < MAX_POLLING_ATTEMPTS_transcriber
    THEN [w EXCEPT !.at = "delay"]
    ELSE IF state = "FAILED" THEN [w EXCEPT !.at = "done", !.code = "PROCESSING_FAILED"]
    ELSE IF state = "PROCESSING"
    THEN [w EXCEPT !.at = "done", !.code = "PROCESSING_TIMEOUT"]
    ELSE [w EXCEPT !.at = "done", !.code = "success"]

\* transcribeVideo from the test of its while loop (line 49) on, with the
\* file state last read.
transcribeLoop(w, state) ==
    IF state = "PROCESSING" /\ w.attempts < MAX_POLLING_ATTEMPTS_transcriber
    THEN [w EXCEPT !.at = "delay"]
    ELSE IF state = "FAILED" THEN [w EXCEPT !.at = "done", !.code = "PROCESSING_FAILED"]
    ELSE IF state = "PROCESSING"
    THEN [w EXCEPT !.at = "done", !.code = "PROCESSING_TIMEOUT"]
    ELSE [w EXCEPT !.at = "done", !.code = "success"]

\* pollForCompletion from the test of its while loop (line 78) on.
pollLoop(w) ==
    IF w.attempts < MAX_POLLING_ATTEMPTS_generator
    THEN [w EXCEPT !.at = "check", !.checks = @ + 1]
    ELSE [w EXCEPT !.at = "done", !.code = "GENERATION_TIMEOUT"]

\* The wait of transcribeVideo when its first getFile (line 46) is invoked,
\* and pollForCompletion when its first GET is invoked.
TranscribeWait == [kind |-> "transcribe", at |-> "check", attempts |-> 0, checks |-> 1,
                   sleeps |-> 0, code |-> "", last |-> "", pendings |-> 0]
GenerateWait == pollLoop([kind |-> "generate", at |-> "check", attempts |-> 0,
                          checks |-> 0, sleeps |-> 0, code |-> "", last |-> "",
                          pendings |-> 0])

\* What an answer means to the loop that reads it.
fileStateClass(state) ==
    IF state = "PROCESSING" THEN "pending"
    ELSE IF state = "FAILED" THEN "failed" ELSE "succeeded"
gammaDataClass(data) ==
    IF data.status = "completed" /\ data.url THEN "succeeded"
    ELSE IF data.status = "failed" THEN "failed" ELSE "pending"

\* The history fields after an answer of class c.
Answered(w, c) ==
    [w EXCEPT !.last = c, !.pendings = IF c = "pending" THEN @ + 1 ELSE @]

\* transcribeVideo resumes with the file getFile read (lines 46 and 51-52):
\* the first getFile leaves attempts alone.
getFileDone(w, state) ==
    transcribeLoop(Answered([w EXCEPT !.attempts = IF w.checks = 1 THEN @ ELSE @ + 1],
                            fileStateClass(state)),
                   state)

\* getFile rejects: the catch block (lines 106-121).
getFileRejected(w) ==
    [Answered(w, "rejected") EXCEPT !.at = "done", !.code = "TRANSCRIPTION_FAILED"]

\* transcribeVideo resumes after delay (line 50) and invokes getFile.
transcribeDelayDone(w) == [w EXCEPT !.at = "check", !.sleeps = @ + 1, !.checks = @ + 1]

\* pollForCompletion resumes with the response of its GET (lines 80-100).
pollGetDone(w, data) ==
    LET w1 == Answered(w, gammaDataClass(data))
    IN IF data.status = "completed" /\ data.url
       THEN [w1 EXCEPT !.at = "done", !.code = "success"]
       ELSE IF data.status = "failed"
       THEN [w1 EXCEPT !.at = "done", !.code = "GENERATION_FAILED"]
       ELSE [w1 EXCEPT !.at = "delay"]

\* The GET rejects: the catch block (lines 102-105).  handleGammaError
\* throws; were it to return, the while loop would go on.
pollGetRejected(w, error) ==
    LET w1 == Answered(w, "rejected")
        code == handleGammaError(error)
    IN IF code = "" THEN pollLoop(w1)
       ELSE [w1 EXCEPT !.at = "done", !.code = code]

\* pollForCompletion resumes after delay (lines 100-101).
pollDelayDone(w) == pollLoop([w EXCEPT !.sleeps = @ + 1, !.attempts = @ + 1])

StoreIdle ==
    UNCHANGED <<jobs, activeCount, queue, now, pc, loc, hist, calls, synthInput,
                finished, settled>>

\* getFile settles (lines 46 and 51-52): the first one leaves attempts alone.
GetFileDone ==
    /\ poll.kind = "transcribe" /\ poll.at = "check"
    /\ StoreIdle
    /\ \/ \E state \in FileStates : poll' = getFileDone(poll, state)
       \/ poll' = getFileRejected(poll)

\* delay settles in transcribeVideo (line 50): the next getFile is invoked.
TranscribeDelayDone ==
    /\ poll.kind = "transcribe" /\ poll.at = "delay"
    /\ StoreIdle
    /\ poll' = transcribeDelayDone(poll)

\* The GET of pollForCompletion settles (lines 80-100 and 102-105).
PollGetDone ==
    /\ poll.kind = "generate" /\ poll.at = "check"
    /\ StoreIdle
    /\ \/ \E data \in GammaAnswers : poll' = pollGetDone(poll, data)
       \/ \E error \in GammaRejections : poll' = pollGetRejected(poll, error)

\* delay settles in pollForCompletion (lines 100-101).
PollDelayDone ==
    /\ poll.kind = "generate" /\ poll.at = "delay"
    /\ StoreIdle
    /\ poll' = pollDelayDone(poll)

----------------------------------------------------------------------------
\* Initial state: a store just constructed.
Init ==
    /\ jobs = <<>>
    /\ activeCount = 0
    /\ queue = <<>>
    /\ now = 0
    /\ pc = <<>>
    /\ loc = <<>>
    /\ hist = <<>>
    /\ calls = <<>>
    /\ synthInput = <<>>
    /\ finished = <<>>
    /\ settled = 0
    /\ poll = NoWait

JobIds == DOMAIN jobs

\* A call of submit(urls, keys), as the POST handler or any caller makes it.
\* Every call that creates a job reads the clock later than the call before
\* it; the jobs of one call read the same millisecond.
Submit ==
    \E n \in 0..MaxUrls :
        /\ Len(jobs) + n <= MaxJobs
        /\ Becomes(submit([Cur EXCEPT !.now = IF n = 0 THEN @ ELSE @ + 1],
                          UrlList(n), KeysOf(now + 1)))
        /\ UNCHANGED settled

SubmitMerge ==
    \E n \in 0..MaxUrls :
        /\ Len(jobs) + n + 1 <= MaxJobs
        /\ Becomes(submitMerge([Cur EXCEPT !.now = @ + 1], UrlList(n), KeysOf(now + 1)))
        /\ UNCHANGED settled

\* downloadLoomVideo settles (processLoomVideo 29-48, downloadAndTranscribe 125-129).
DownloadDone(j) ==
    /\ pc[j] = "download"
    /\ settled' = settled + 1
    /\ \E ok \in BOOLEAN :
        IF ok
        THEN LET s1 == onStatus(Cur, j, "download", 100,
                                <<"Video erfolgreich heruntergeladen">>)
                 s2 == onStatus(s1, j, "transcribe", 0, <<"Lade Video zu Gemini hoch...">>)
                 s3 == onStatus(s2, j, "transcribe", 30,
                                <<"Video wird von Gemini verarbeitet...">>)
             IN Becomes([s3 EXCEPT !.loc[j].downloadResult = TRUE,
                                   !.calls[j].transcribe = @ + 1,
                                   !.pc[j] = "transcribe"])
        ELSE Becomes([Cur EXCEPT !.loc[j].caught = DownloadError,
                                 !.loc[j].success = FALSE,
                                 !.pc[j] = "return"])

\* transcribeVideo settles (processLoomVideo 50-59 / 87-91, downloadAndTranscribe
\* 130-133 / 136-138): either way the next await is downloadResult.cleanup().
TranscribeDone(j) ==
    /\ pc[j] = "transcribe"
    /\ settled' = settled + 1
    /\ \E ok \in BOOLEAN :
        IF ok
        THEN LET s1 == onStatus(Cur, j, "transcribe", 100, <<"Transkription abgeschlossen">>)
             IN Becomes([s1 EXCEPT !.loc[j].transcript = Transcript(jobs[j].url),
                                   !.calls[j].cleanup = @ + 1,
                                   !.pc[j] = "cleanup"])
        ELSE Becomes([Cur EXCEPT !.loc[j].caught = TranscribeError,
                                 !.calls[j].cleanup = @ + 1,
                                 !.pc[j] = "cleanupCatch"])

\* The cleanup function of a download result (downloader.ts 77-83), given
\* whether its fs.unlink succeeded: try { await fs.unlink(filePath) } catch {}.
\* (cleanupRethrows: without the try/catch.)
cleanupRethrows(unlinked) == IF unlinked THEN "resolved" ELSE "rejected"
cleanup(unlinked) == IF unlinked THEN "resolved" ELSE "resolved"

\* The cleanup awaited on the success path settles (processLoomVideo 59-74,
\* downloadAndTranscribe 133-135).  It is awaited inside the try block: were
\* it to reject, the catch block would take its error.
CleanupDone(j) ==
    /\ pc[j] = "cleanup"
    /\ settled' = settled + 1
    /\ IF cleanup(unlinkOk(jobs[j].url)) = "rejected"
       THEN Becomes([Cur EXCEPT !.loc[j].caught = UnlinkError,
                                !.calls[j].cleanup = @ + 1,
                                !.pc[j] = "cleanupCatch"])
       ELSE IF jobs[j].mode = "merge-child"
       THEN Becomes([Cur EXCEPT !.loc[j].success = TRUE, !.pc[j] = "return"])
       ELSE LET s1 == onStatus(Cur, j, "generate", 0,
                               <<"Erstelle Praesentation mit Gamma...">>)
                s2 == onStatus(s1, j, "generate", 30, <<"Gamma generiert Praesentation...">>)
            IN Becomes([s2 EXCEPT !.calls[j].synth = @ + 1,
                                  !.synthInput[j] = loc[j].transcript,
                                  !.pc[j] = "generate"])

\* createPresentation settles in processLoomVideo (76-86 / 87-91).
GenerateDone(j) ==
    /\ pc[j] = "generate"
    /\ settled' = settled + 1
    /\ jobs[j].mode = "individual"
    /\ \E ok \in BOOLEAN :
        IF ok
        THEN LET s1 == onStatus(Cur, j, "generate", 100,
                                <<"Praesentation erfolgreich erstellt!">>)
             IN Becomes([s1 EXCEPT !.loc[j].presentationUrl = GammaUrl,
                                   !.loc[j].success = TRUE,
                                   !.pc[j] = "return"])
        ELSE Becomes([Cur EXCEPT !.loc[j].caught = GenerateError,
                                 !.calls[j].cleanup = @ + 1,
                                 !.pc[j] = "cleanupCatch"])

\* The cleanup awaited in the catch block settles, inside a try/catch of its
\* own that ignores a rejection: the runner returns { success: false, error }
\* (processLoomVideo 89-107, downloadAndTranscribe 137-144).
CleanupCatchDone(j) ==
    /\ pc[j] = "cleanupCatch"
    /\ settled' = settled + 1
    /\ Becomes([Cur EXCEPT !.loc[j].success = FALSE, !.pc[j] = "return"])

\* runJob resumes with the result of processLoomVideo (136-157).
runJobResult(st, j) ==
    IF st.loc[j].success
    THEN LET s1 == SetStatus(st, j, "completed")
         IN [s1 EXCEPT !.jobs[j] =
                SetField([@ EXCEPT !.progress = 100,
                                   !.message = <<"Praesentation erstellt!">>],
                         "result", [transcript |-> st.loc[j].transcript,
                                    presentationUrl |-> st.loc[j].presentationUrl])]
    ELSE LET s1 == SetStatus(st, j, "failed")
         IN [s1 EXCEPT !.jobs[j] =
                SetField([@ EXCEPT !.message =
                             OrElse(st.loc[j].caught, <<"Verarbeitung fehlgeschlagen">>)],
                         "error", OrElse(st.loc[j].caught, <<"Unbekannter Fehler">>))]

\* (runMergeChildResultAlwaysResult: job.result is assigned before the test of
\* result.success.)
runMergeChildResultAlwaysResult(st, j) ==
    LET s0 == [st EXCEPT !.jobs[j] =
                  SetField(@, "result", [transcript |-> st.loc[j].transcript,
                                         presentationUrl |-> ""])]
    IN IF st.loc[j].success
       THEN LET s1 == SetStatus(s0, j, "completed")
            IN [s1 EXCEPT !.jobs[j].progress = 100,
                          !.jobs[j].message = <<"Transkription abgeschlossen">>]
       ELSE LET s1 == SetStatus(s0, j, "failed")
            IN [s1 EXCEPT !.jobs[j] =
                   SetField([@ EXCEPT !.message =
                                OrElse(st.loc[j].caught, <<"Transkription fehlgeschlagen">>)],
                            "error", OrElse(st.loc[j].caught, <<"Unbekannter Fehler">>))]

\* runMergeChild resumes with the result of downloadAndTranscribe (182-200).
runMergeChildResult(st, j) ==
    IF st.loc[j].success
    THEN LET s1 == SetStatus(st, j, "completed")
         IN [s1 EXCEPT !.jobs[j] =
                SetField([@ EXCEPT !.progress = 100,
                                   !.message = <<"Transkription abgeschlossen">>],
                         "result", [transcript |-> st.loc[j].transcript,
                                    presentationUrl |-> ""])]
    ELSE LET s1 == SetStatus(st, j, "failed")
         IN [s1 EXCEPT !.jobs[j] =
                SetField([@ EXCEPT !.message =
                             OrElse(st.loc[j].caught, <<"Transkription fehlgeschlagen">>)],
                         "error", OrElse(st.loc[j].caught, <<"Unbekannter Fehler">>))]

RunnerReturn(j) ==
    /\ pc[j] = "return"
    /\ settled' = settled + 1
    /\ IF jobs[j].mode = "merge-child"
       THEN Becomes(finallyRunMergeChild(
                [runMergeChildResult(Cur, j) EXCEPT !.pc[j] = "done",
                                                    !.finished = Append(@, j)], j))
       ELSE Becomes(finallyRunJob([runJobResult(Cur, j) EXCEPT !.pc[j] = "done"], j))

\* createPresentation settles in checkMergeCompletion (248-259).
MergeGenerateDone(p) ==
    /\ pc[p] = "generate"
    /\ settled' = settled + 1
    /\ jobs[p].mode = "merge-parent"
    /\ \E ok \in BOOLEAN :
        IF ok
        THEN LET s1 == SetStatus(Cur, p, "completed")
             IN Becomes([s1 EXCEPT !.pc[p] = "done",
                                   !.jobs[p] =
                    SetField([@ EXCEPT !.progress = 100,
                                       !.message = <<"Praesentation erstellt!">>],
                             "result", [transcript |-> synthInput[p],
                                        presentationUrl |-> GammaUrl])])
        ELSE LET s1 == SetStatus(Cur, p, "failed")
             IN Becomes([s1 EXCEPT !.pc[p] = "done",
                                   !.jobs[p] =
                    SetField([@ EXCEPT !.message = GenerateError], "error", GenerateError)])

Next ==
    \/ Submit
    \/ SubmitMerge
    \/ \E j \in JobIds : DownloadDone(j)
    \/ \E j \in JobIds : TranscribeDone(j)
    \/ \E j \in JobIds : CleanupDone(j)
    \/ \E j \in JobIds : GenerateDone(j)
    \/ \E j \in JobIds : CleanupCatchDone(j)
    \/ \E j \in JobIds : RunnerReturn(j)
    \/ \E p \in JobIds : MergeGenerateDone(p)

Spec == Init /\ [][Next]_vars

\* A step of some runner or merge check: a pending collaborator call settles
\* and the code awaiting it runs to its next await.
RunnerStep ==
    \E j \in JobIds :
        \/ DownloadDone(j)
        \/ TranscribeDone(j)
        \/ CleanupDone(j)
        \/ GenerateDone(j)
        \/ CleanupCatchDone(j)
        \/ RunnerReturn(j)
        \/ MergeGenerateDone(j)

\* Some awaited call is pending.
Pending == \E j \in JobIds : pc[j] \notin {"none", "done"}

\* A pending call settles.  In this program the steps that add one to
\* settled are the steps of RunnerStep, and one is possible exactly when a
\* call is pending.
Settle == Pending /\ settled' = settled + 1

\* The same program with every collaborator call eventually returning: as
\* long as some call is pending, one of them settles and the event loop runs
\* its continuation.
Fairness == WF_settled(Settle)

FairSpec == Spec /\ Fairness

\* One wait on a remote operation, of either kind, from its first check.
WaitInit ==
    /\ jobs = <<>>
    /\ activeCount = 0
    /\ queue = <<>>
    /\ now = 0
    /\ pc = <<>>
    /\ loc = <<>>
    /\ hist = <<>>
    /\ calls = <<>>
    /\ synthInput = <<>>
    /\ finished = <<>>
    /\ settled = 0
    /\ poll \in {TranscribeWait, GenerateWait}

WaitNext ==
    \/ GetFileDone
    \/ TranscribeDelayDone
    \/ PollGetDone
    \/ PollDelayDone

WaitSpec == WaitInit /\ [][WaitNext]_vars

\* The two polling loops side by side, each of their status checks answered
\* with the same outcome: the n-th getFile of transcribeVideo reads the file
\* state that says what the n-th GET of pollForCompletion is answered.
Outcomes == {"pending", "succeeded", "failed"}
fileStateOf(outcome) ==
    IF outcome = "pending" THEN "PROCESSING"
    ELSE IF outcome = "failed" THEN "FAILED" ELSE "ACTIVE"
gammaDataOf(outcome) ==
    IF outcome = "pending" THEN [status |-> "pending", url |-> FALSE]
    ELSE IF outcome = "failed" THEN [status |-> "failed", url |-> FALSE]
    ELSE [status |-> "completed", url |-> TRUE]

PairWait == [kind |-> "pair", t |-> TranscribeWait, g |-> GenerateWait]

PairInit ==
    /\ jobs = <<>>
    /\ activeCount = 0
    /\ queue = <<>>
    /\ now = 0
    /\ pc = <<>>
    /\ loc = <<>>
    /\ hist = <<>>
    /\ calls = <<>>
    /\ synthInput = <<>>
    /\ finished = <<>>
    /\ settled = 0
    /\ poll = PairWait

\* The status checks under way settle with the same outcome.
PairCheckDone ==
    /\ poll.kind = "pair"
    /\ poll.t.at = "check" \/ poll.g.at = "check"
    /\ StoreIdle
    /\ \E outcome \in Outcomes :
         poll' = [poll EXCEPT
                    !.t = IF @.at = "check" THEN getFileDone(@, fileStateOf(outcome)) ELSE @,
                    !.g = IF @.at = "check" THEN pollGetDone(@, gammaDataOf(outcome)) ELSE @]

\* The delays under way settle.
PairDelayDone ==
    /\ poll.kind = "pair"
    /\ poll.t.at = "delay" \/ poll.g.at = "delay"
    /\ StoreIdle
    /\ poll' = [poll EXCEPT
                  !.t = IF @.at = "delay" THEN transcribeDelayDone(@) ELSE @,
                  !.g = IF @.at = "delay" THEN pollDelayDone(@) ELSE @]

PairNext ==
    \/ PairCheckDone
    \/ PairDelayDone

PairSpec == PairInit /\ [][PairNext]_vars

----------------------------------------------------------------------------
\* Vocabulary of the properties.

Parents == {p \in JobIds : jobs[p].mode = "merge-parent"}
Runnable == {j \in JobIds : jobs[j].mode \in {"individual", "merge-child"}}
ChildrenOf(p) == {jobs[p].childJobIds[i] : i \in 1..Len(jobs[p].childJobIds)}
IsTerminal(j) == jobs[j].status \in Terminal

\* C1: at any instant at most MAX_CONCURRENT jobs, of all modes together,
\* have an in-flight status.
C1_AtMostCeilingInFlight ==
    Cardinality({j \in JobIds : jobs[j].status \in InFlight}) <= MAX_CONCURRENT

\* C2: activeCount stays within 0..MAX_CONCURRENT and is the number of
\* individual and merge-child jobs whose runner was started and has not
\* finished, which are those with an in-flight status.
C2_ActiveCountIsRunning ==
    /\ activeCount \in 0..MAX_CONCURRENT
    /\ activeCount = Cardinality({j \in Runnable : pc[j] \notin {"none", "done"}})
    /\ \A j \in Runnable : (pc[j] \notin {"none", "done"}) <=> (jobs[j].status \in InFlight)

C2_Witness ==
    /\ activeCount = MAX_CONCURRENT
    /\ queue # <<>>
    /\ \E j \in Runnable : jobs[j].mode = "merge-child" /\ jobs[j].status = "transcribing"
    /\ \E j \in Runnable : jobs[j].mode = "individual" /\ jobs[j].status = "generating"

\* C3: submit of N locators creates N individual jobs, one per locator, and
\* every individual job eventually reaches completed or failed, whatever else
\* is submitted meanwhile.
C3_IndividualJobsTerminate ==
    /\ [](\A n \in 0..MaxUrls :
            LET st == submit(Cur, UrlList(n), KeysOf(now))
            IN /\ Len(st.jobs) = Len(jobs) + n
               /\ \A i \in 1..n :
                    /\ st.jobs[Len(jobs) + i].mode = "individual"
                    /\ st.jobs[Len(jobs) + i].url = UrlList(n)[i]
               /\ \A i \in 1..Len(jobs) : st.jobs[i].mode = jobs[i].mode)
    /\ \A j \in 1..MaxJobs :
         (j \in JobIds /\ jobs[j].mode = "individual")
            ~> (j \in JobIds /\ jobs[j].status \in Terminal)

C3_Witness ==
    /\ Len(jobs) = MaxJobs
    /\ \A j \in JobIds : jobs[j].mode = "individual" /\ IsTerminal(j)
    /\ \E j \in JobIds : jobs[j].status = "completed" /\ jobs[j].createdAt > 1
    /\ \E j \in JobIds : jobs[j].status = "failed"

\* C4: a job whose status is completed or failed keeps that status in every
\* later state.
C4_TerminalStatusIsFinal ==
    [][\A j \in JobIds : IsTerminal(j) => jobs'[j].status = jobs[j].status]_vars

\* A failed parent whose sibling children went on to terminate, and a
\* terminal individual job next to them.
C4_Witness ==
    \E p \in Parents :
        /\ jobs[p].status = "failed"
        /\ Len(jobs[p].childJobIds) >= 2
        /\ \A c \in ChildrenOf(p) : IsTerminal(c)
        /\ finished[1] \in ChildrenOf(p) /\ jobs[finished[1]].status = "failed"

\* C5: in a merge of three children [c1, c2, c3] where c2 failed and c1 and
\* c3 completed, the parent is failed, its error is the one that names c2's
\* failure, and the parent was never generating.
C5_MiddleChildFailure ==
    \A p \in Parents :
        LET ch == jobs[p].childJobIds
        IN (/\ Len(ch) = 3
            /\ jobs[ch[2]].status = "failed"
            /\ jobs[ch[1]].status = "completed"
            /\ jobs[ch[3]].status = "completed")
           => /\ jobs[p].status = "failed"
              /\ jobs[p].error = <<"Video fehlgeschlagen: ">> \o jobs[ch[2]].error
              /\ hist[p] = <<"queued", "failed">>
              /\ calls[p].synth = 0

\* c2 failed first; c1 and c3 completed after it.
C5_Witness ==
    \E p \in Parents :
        LET ch == jobs[p].childJobIds
        IN /\ Len(ch) = 3
           /\ jobs[ch[2]].status = "failed"
           /\ jobs[ch[1]].status = "completed"
           /\ jobs[ch[3]].status = "completed"
           /\ finished = <<ch[2], ch[1], ch[3]>>

\* The text the claim describes: for the children in childJobIds order, the
\* label of the child's position and locator, then its transcript, with a
\* blank line between two children.
RECURSIVE ExpectedCombined(_, _)
ExpectedCombined(ch, n) ==
    IF n = 0 THEN <<>>
    ELSE ExpectedCombined(ch, n - 1)
            \o (IF n > 1 THEN <<"\n\n">> ELSE <<>>)
            \o <<"--- Video ", ToString(n), " (">>
            \o (IF jobs[ch[n]].url.site = "loom.com"
                   /\ jobs[ch[n]].url.kind \in {"share", "embed"}
                THEN <<jobs[ch[n]].url.id>> ELSE <<"Video ", ToString(n)>>)
            \o <<") ---\n">>
            \o jobs[ch[n]].result.transcript

\* C6: when all children of a merge completed, the text given to the
\* synthesis operation, and stored as the parent's transcript, is the
\* children's texts in childJobIds order, each under its label, whatever the
\* order in which the children completed.
C6_CombinedInSubmissionOrder ==
    \A p \in Parents :
        calls[p].synth > 0 =>
            /\ synthInput[p] = ExpectedCombined(jobs[p].childJobIds,
                                                Len(jobs[p].childJobIds))
            /\ jobs[p].status = "completed" =>
                   jobs[p].result.transcript = synthInput[p]

\* The children did not complete in their submission order.
C6_Witness ==
    \E p \in Parents :
        LET ch == jobs[p].childJobIds
        IN /\ Len(ch) = 3
           /\ jobs[p].status = "completed"
           /\ finished = <<ch[2], ch[1], ch[3]>>
           /\ jobs[ch[1]].result.transcript # jobs[ch[2]].result.transcript

\* C7: no step lowers the progress of any job.
C7_ProgressNeverDecreases ==
    [][\A j \in JobIds : jobs'[j].progress >= jobs[j].progress]_vars

C7_Witness ==
    /\ \E j \in JobIds : jobs[j].mode = "individual" /\ jobs[j].status = "failed"
                         /\ jobs[j].progress = 79
    /\ \E p \in Parents : jobs[p].status = "failed" /\ jobs[p].progress > 0

\* C8: a step in which the merge check runs on a parent that is already
\* completed or failed changes no field of the parent and starts no
\* synthesis for it.
C8_CheckOnTerminalParentIsNoOp ==
    [][\A p \in Parents :
          IsTerminal(p) => /\ jobs'[p] = jobs[p]
                           /\ calls'[p].synth = calls[p].synth]_vars

\* C9: what the read operations hand out does not depend on the credentials
\* of the jobs: a store that differs only in them returns the same thing.
C9_ReadsIndependentOfCredentials ==
    \A k \in KeySet :
        LET other == [i \in DOMAIN jobs |-> [jobs[i] EXCEPT !.keys = k]]
        IN /\ GETJobs(other) = GETJobs(jobs)
           /\ \A id \in 1..MaxJobs : GETJob(other, id) = GETJob(jobs, id)

\* C10: listJobs returns one summary per job of the table, newest first,
\* each without credentials and without transcript (a result holds the
\* artifact reference only), and otherwise with the job's own fields.
C10_ListJobs ==
    LET L == getAllJobs(jobs)
    IN /\ Len(L) = Len(jobs)
       /\ {L[i].id : i \in 1..Len(L)} = JobIds
       /\ \A i \in 1..Len(L) : \A k \in 1..Len(L) :
            i < k => L[i].createdAt >= L[k].createdAt
       /\ \A i \in 1..Len(L) :
            LET job == jobs[L[i].id]
            IN /\ "keys" \notin DOMAIN L[i]
               /\ DOMAIN L[i] = (DOMAIN job) \ {"keys"}
               /\ \A f \in (DOMAIN job) \ {"keys", "result"} : L[i][f] = job[f]
               /\ "result" \in DOMAIN job =>
                    /\ DOMAIN L[i].result = {"presentationUrl"}
                    /\ L[i].result.presentationUrl = job.result.presentationUrl

C10_Witness ==
    /\ \E j \in JobIds : jobs[j].mode = "individual" /\ jobs[j].status = "completed"
    /\ \E j \in JobIds : jobs[j].mode = "merge-child" /\ jobs[j].status = "completed"
    /\ \E j \in JobIds : jobs[j].status = "failed"
    /\ jobs[1].createdAt < jobs[Len(jobs)].createdAt

\* C11: in every state and for every job: a completed job has a result and
\* no error, a failed job has an error and no result, and a job that is
\* queued, downloading, transcribing or generating has neither.
C11_ResultXorError ==
    \A j \in JobIds :
        LET hasResult == "result" \in DOMAIN jobs[j]
            hasError == "error" \in DOMAIN jobs[j]
        IN /\ jobs[j].status = "completed" => hasResult /\ ~hasError
           /\ jobs[j].status = "failed" => hasError /\ ~hasResult
           /\ jobs[j].status \notin Terminal => ~hasResult /\ ~hasError

\* A completed individual job, a failed child whose transcription had been
\* started, its failed parent, and a job still in flight.
C11_Witness ==
    /\ \E j \in JobIds : jobs[j].mode = "individual" /\ jobs[j].status = "completed"
    /\ \E p \in Parents :
          /\ jobs[p].status = "failed"
          /\ \E c \in ChildrenOf(p) : jobs[c].status = "failed" /\ calls[c].transcribe = 1
          /\ \E c \in ChildrenOf(p) : jobs[c].status \in InFlight

\* C12: a call of submit or submitMerge with N locators on a store with an
\* empty queue and activeCount = a leaves, of the N new individual or child
\* jobs, the first min(N, MAX_CONCURRENT - a) in locator order started and the
\* others queued; and a job that waited in status queued starts only in a
\* step in which a running job reaches completed or failed.
C12_DispatchOnSubmit ==
    [][/\ (Len(jobs') > Len(jobs) /\ queue = <<>>) =>
            LET new == {j \in (DOMAIN jobs') \ JobIds : jobs'[j].mode # "merge-parent"}
                N == Cardinality(new)
                free == MAX_CONCURRENT - activeCount
                k == IF N < free THEN N ELSE free
            IN \A j \in new :
                 /\ jobs'[j].url = Locator(j - Len(jobs))
                 /\ IF j - Len(jobs) <= k
                    THEN jobs'[j].status # "queued"
                    ELSE jobs'[j].status = "queued"
       /\ \A j \in Runnable :
            (jobs[j].status = "queued" /\ jobs'[j].status # "queued") =>
                \E r \in Runnable : /\ jobs[r].status \in InFlight
                                    /\ jobs'[r].status \in Terminal]_vars

\* A merge of three: the first two children started at once, the third
\* started when one of them had finished.
C12_Witness ==
    \E p \in Parents :
        LET ch == jobs[p].childJobIds
        IN /\ Len(ch) = 3
           /\ jobs[ch[3]].status = "downloading"
           /\ jobs[ch[1]].status \in InFlight
           /\ jobs[ch[2]].status \in Terminal
           /\ activeCount = MAX_CONCURRENT

\* The number of completed children of a parent, and whether one failed.
CompletedOf(p) == Cardinality({c \in ChildrenOf(p) : jobs[c].status = "completed"})
SomeFailedOf(p) == \E c \in ChildrenOf(p) : jobs[c].status = "failed"

\* C13 as stated: in a merge of 3 children that complete one by one without
\* failure, the parent is queued with progress 23 after the first completion
\* and 46 after the second, has progress 70 or more after the third, and is
\* then generating with progress 75 and completed with progress 100.
C13_ProgressAsStated ==
    \A p \in Parents :
        (Len(jobs[p].childJobIds) = 3 /\ ~SomeFailedOf(p) /\ jobs[p].status # "failed") =>
            /\ CompletedOf(p) = 0 => jobs[p].status = "queued" /\ jobs[p].progress = 0
            /\ CompletedOf(p) = 1 => jobs[p].status = "queued" /\ jobs[p].progress = 23
            /\ CompletedOf(p) = 2 => jobs[p].status = "queued" /\ jobs[p].progress = 46
            /\ CompletedOf(p) = 3 =>
                 \/ jobs[p].status = "queued" /\ jobs[p].progress = 70
                 \/ jobs[p].status = "generating" /\ jobs[p].progress = 75
                 \/ jobs[p].status = "completed" /\ jobs[p].progress = 100

\* C13 as amended: the parent is queued with progress 23 after the first
\* completion and 47 after the second (Math.round of 46.67); the third
\* completion takes it in the same step to generating with progress 75, the
\* value 70 is never shown; then it is completed with progress 100, and it
\* had no other status on the way.
C13_ProgressOfMergeOfThree ==
    \A p \in Parents :
        (Len(jobs[p].childJobIds) = 3 /\ ~SomeFailedOf(p) /\ jobs[p].status # "failed") =>
            /\ CompletedOf(p) = 0 => jobs[p].status = "queued" /\ jobs[p].progress = 0
            /\ CompletedOf(p) = 1 => jobs[p].status = "queued" /\ jobs[p].progress = 23
            /\ CompletedOf(p) = 2 => jobs[p].status = "queued" /\ jobs[p].progress = 47
            /\ CompletedOf(p) = 3 =>
                 \/ /\ jobs[p].status = "generating" /\ jobs[p].progress = 75
                    /\ hist[p] = <<"queued", "generating">>
                 \/ /\ jobs[p].status = "completed" /\ jobs[p].progress = 100
                    /\ hist[p] = <<"queued", "generating", "completed">>

\* Two of three children completed, the third still running.
C13_Witness ==
    \E p \in Parents :
        /\ Len(jobs[p].childJobIds) = 3
        /\ CompletedOf(p) = 2
        /\ \E c \in ChildrenOf(p) : jobs[c].status = "transcribing"
        /\ jobs[p].progress = 47

\* s is a prefix of t.
IsPrefix(s, t) == Len(s) <= Len(t) /\ SubSeq(t, 1, Len(s)) = s

\* h is a prefix of order, or such a prefix that ends in an in-flight status
\* followed by failed.
StagesInOrder(h, order) ==
    \/ IsPrefix(h, order)
    \/ /\ Len(h) >= 2
       /\ h[Len(h)] = "failed"
       /\ h[Len(h) - 1] \in InFlight
       /\ IsPrefix(SubSeq(h, 1, Len(h) - 1), order)

\* C14: the status history of an individual job is a prefix of queued,
\* downloading, transcribing, generating, completed, possibly cut short after
\* an in-flight status by failed; and its progress is within 0..30 while it
\* is downloading, 30..70 while transcribing and 70..100 while generating.
C14_IndividualStagesInOrder ==
    \A j \in JobIds :
        jobs[j].mode = "individual" =>
            /\ StagesInOrder(hist[j], <<"queued", "downloading", "transcribing",
                                        "generating", "completed">>)
            /\ hist[j][Len(hist[j])] = jobs[j].status
            /\ jobs[j].status = "downloading" => jobs[j].progress \in 0..30
            /\ jobs[j].status = "transcribing" => jobs[j].progress \in 30..70
            /\ jobs[j].status = "generating" => jobs[j].progress \in 70..100

\* One individual job went through every stage, one failed in transcription
\* and one is generating.
C14_Witness ==
    /\ \E j \in JobIds :
          /\ jobs[j].mode = "individual"
          /\ hist[j] = <<"queued", "downloading", "transcribing", "generating", "completed">>
    /\ \E j \in JobIds :
          /\ jobs[j].mode = "individual"
          /\ hist[j] = <<"queued", "downloading", "transcribing", "failed">>
    /\ \E j \in JobIds :
          /\ jobs[j].mode = "individual"
          /\ jobs[j].status = "generating" /\ jobs[j].progress = 79

\* The merge structure of a state: every parent's childJobIds lists, in
\* locator order, jobs of the table that are its merge children and no other
\* job names it as parent; every child's parentJobId is a parent of the table
\* that lists it; no parent is in the queue; every waiting child is in the
\* queue once, the queue holds the children in locator order and they leave
\* it in that order.
MergeStructure ==
    /\ \A p \in Parents :
        LET ch == jobs[p].childJobIds
        IN /\ \A i \in 1..Len(ch) :
                /\ ch[i] \in JobIds
                /\ jobs[ch[i]].mode = "merge-child"
                /\ jobs[ch[i]].parentJobId = p
                /\ jobs[ch[i]].url = Locator(i)
           /\ \A i \in 1..Len(ch) : \A k \in 1..Len(ch) : i # k => ch[i] # ch[k]
           /\ {c \in JobIds : jobs[c].mode = "merge-child" /\ jobs[c].parentJobId = p}
                 = ChildrenOf(p)
           /\ \A q \in 1..Len(queue) : queue[q] # p
           /\ \A i \in 1..Len(ch) : \A k \in 1..Len(ch) :
                (i < k /\ jobs[ch[k]].status # "queued") => jobs[ch[i]].status # "queued"
           /\ \A a \in 1..Len(queue) : \A b \in 1..Len(queue) :
                \A i \in 1..Len(ch) : \A k \in 1..Len(ch) :
                    (a < b /\ queue[a] = ch[i] /\ queue[b] = ch[k]) => i < k
    /\ \A c \in JobIds :
        jobs[c].mode = "merge-child" =>
            /\ jobs[c].parentJobId \in Parents
            /\ c \in ChildrenOf(jobs[c].parentJobId)
            /\ jobs[c].status = "queued" =>
                   Cardinality({q \in 1..Len(queue) : queue[q] = c}) = 1

\* C15: submitMerge with N locators creates N merge-child jobs and one
\* merge-parent job; from then on the parent's childJobIds is the list of
\* those children in locator order and does not change, every child's
\* parentJobId is that parent, every id referred to is a job of the table,
\* the children were queued in locator order and the parent's id is never in
\* the queue.
C15_MergeStructure ==
    /\ []MergeStructure
    /\ [][/\ \A p \in Parents :
               /\ jobs'[p].childJobIds = jobs[p].childJobIds
               /\ \A c \in ChildrenOf(p) : jobs'[c].parentJobId = p
          /\ \A p \in (DOMAIN jobs') \ JobIds :
               jobs'[p].mode = "merge-parent" =>
                 /\ p = Len(jobs')
                 /\ Len(jobs'[p].childJobIds) = Len(jobs') - Len(jobs) - 1
                 /\ \A c \in ((DOMAIN jobs') \ JobIds) \ {p} :
                       jobs'[c].mode = "merge-child" /\ jobs'[c].parentJobId = p]_vars

\* A merge of three whose third child waits in the queue while the first two
\* run.
C15_Witness ==
    \E p \in Parents :
        LET ch == jobs[p].childJobIds
        IN /\ Len(ch) = 3
           /\ queue = <<ch[3]>>
           /\ jobs[ch[1]].status = "transcribing"
           /\ jobs[ch[2]].status = "downloading"

\* C16: for every submitMerge with at least one locator, when every
\* collaborator call eventually returns, every child and the parent
\* eventually are completed or failed; the parent's synthesis is called once
\* all children are completed and not before, and the parent is failed as
\* soon as a child is failed.
C16_MergeTerminates ==
    /\ [](\A p \in Parents :
            Len(jobs[p].childJobIds) >= 1 =>
                /\ CompletedOf(p) = Len(jobs[p].childJobIds) =>
                      /\ calls[p].synth = 1
                      /\ jobs[p].status \in {"generating", "completed", "failed"}
                /\ CompletedOf(p) < Len(jobs[p].childJobIds) => calls[p].synth = 0
                /\ SomeFailedOf(p) => jobs[p].status = "failed"
                /\ (jobs[p].status = "failed" /\ calls[p].synth = 0) => SomeFailedOf(p))
    /\ \A j \in 1..MaxJobs :
         (j \in JobIds /\ jobs[j].mode = "merge-child")
            ~> (j \in JobIds /\ jobs[j].status \in Terminal)
    /\ \A p \in 1..MaxJobs :
         (p \in JobIds /\ jobs[p].mode = "merge-parent" /\ Len(jobs[p].childJobIds) >= 1)
            ~> (p \in JobIds /\ jobs[p].status \in Terminal)

\* A parent completed after its two children completed in reverse order.
C16_Witness ==
    \E p \in Parents :
        LET ch == jobs[p].childJobIds
        IN /\ Len(ch) = 2
           /\ jobs[p].status = "completed"
           /\ finished = <<ch[2], ch[1]>>
           /\ pc[p] = "done"

\* C17: over the run of a job whose download succeeded the cleanup function
\* is invoked exactly once, whether the transcription fails, the synthesis
\* fails or both succeed; when the download fails it is never invoked.
C17_CleanupExactlyOnce ==
    \A j \in Runnable :
        /\ calls[j].cleanup <= 1
        /\ ~loc[j].downloadResult => calls[j].cleanup = 0
        /\ (pc[j] = "done" /\ loc[j].downloadResult) => calls[j].cleanup = 1

\* C18: when the unlink of a job's cleanup fails, the job's outcome is that
\* of its stages: a job whose transcription (and, for an individual job,
\* synthesis) succeeded is completed, and the error of a failed job is the
\* message of the stage that failed, never that of the cleanup.
C18_CleanupFailureSwallowed ==
    \A j \in Runnable :
        (calls[j].cleanup > 0 /\ ~unlinkOk(jobs[j].url)) =>
            /\ jobs[j].status = "failed" =>
                  /\ jobs[j].error # UnlinkError
                  /\ jobs[j].error =
                        (IF loc[j].transcript = <<>> THEN TranscribeError ELSE GenerateError)
            /\ (pc[j] = "done" /\ loc[j].transcript # <<>> /\ jobs[j].mode = "merge-child")
                  => jobs[j].status = "completed"
            /\ (pc[j] = "done" /\ jobs[j].mode = "individual"
                    /\ calls[j].synth = 1 /\ loc[j].caught = <<>>)
                  => jobs[j].status = "completed"
            /\ (pc[j] \in {"return", "done"} /\ jobs[j].mode = "individual"
                    /\ loc[j].transcript # <<>>)
                  => calls[j].synth = 1

\* Two individual jobs whose file could not be removed: one completed, the
\* other failed in synthesis.
C18_Witness ==
    /\ \E j \in Runnable :
          /\ ~unlinkOk(jobs[j].url) /\ calls[j].cleanup > 0
          /\ jobs[j].status = "completed"
    /\ \E j \in Runnable :
          /\ ~unlinkOk(jobs[j].url) /\ calls[j].cleanup > 0
          /\ jobs[j].status = "failed" /\ jobs[j].error = GenerateError

\* C19: when a stage of a job fails the job ends failed with that stage's
\* message, and no later stage is invoked for it: after a failed download
\* neither transcription nor synthesis runs, after a failed transcription no
\* synthesis runs.
C19_FailFast ==
    /\ \A j \in Runnable :
        /\ calls[j].download <= 1 /\ calls[j].transcribe <= 1 /\ calls[j].synth <= 1
        /\ calls[j].transcribe > 0 => loc[j].downloadResult
        /\ calls[j].synth > 0 => loc[j].transcript # <<>>
        /\ loc[j].caught = DownloadError =>
              calls[j].transcribe = 0 /\ calls[j].synth = 0
        /\ loc[j].caught = TranscribeError => calls[j].synth = 0
        /\ (loc[j].caught # <<>> /\ pc[j] = "done") =>
              /\ jobs[j].status = "failed"
              /\ jobs[j].error = loc[j].caught
              /\ jobs[j].message = loc[j].caught
        /\ loc[j].caught # <<>> => pc[j] \in {"cleanupCatch", "return", "done"}
    /\ \A p \in Parents :
        (jobs[p].status = "failed" /\ calls[p].synth = 1) =>
            jobs[p].error = GenerateError /\ pc[p] = "done"

\* Three jobs, failed one in each stage.
C19_Witness ==
    /\ \E j \in Runnable : /\ pc[j] = "done" /\ jobs[j].status = "failed"
                            /\ loc[j].caught = DownloadError
    /\ \E j \in Runnable : /\ pc[j] = "done" /\ jobs[j].status = "failed"
                            /\ loc[j].caught = TranscribeError
    /\ \E j \in Runnable : /\ pc[j] = "done" /\ jobs[j].status = "failed"
                            /\ loc[j].caught = GenerateError

\* C20: a merge child is never generating and never calls the synthesis;
\* its status history is a prefix of queued, downloading, transcribing,
\* completed, or is cut short by failed; its progress is within 0..50 while
\* downloading and 50..100 while transcribing; when completed, its result is
\* the transcript with an empty presentation URL.
C20_MergeChildStages ==
    \A c \in JobIds :
        jobs[c].mode = "merge-child" =>
            /\ jobs[c].status # "generating"
            /\ \A i \in 1..Len(hist[c]) : hist[c][i] # "generating"
            /\ calls[c].synth = 0
            /\ StagesInOrder(hist[c], <<"queued", "downloading", "transcribing",
                                        "completed">>)
            /\ hist[c][Len(hist[c])] = jobs[c].status
            /\ jobs[c].status = "downloading" => jobs[c].progress \in 0..50
            /\ jobs[c].status = "transcribing" => jobs[c].progress \in 50..100
            /\ jobs[c].status = "completed" =>
                  /\ jobs[c].result = [transcript |-> Transcript(jobs[c].url),
                                       presentationUrl |-> ""]
                  /\ jobs[c].progress = 100

\* One child completed, one transcribing, one failed in its download.
C20_Witness ==
    /\ \E c \in JobIds : jobs[c].mode = "merge-child" /\ jobs[c].status = "completed"
    /\ \E c \in JobIds : /\ jobs[c].mode = "merge-child"
                          /\ jobs[c].status = "transcribing" /\ jobs[c].progress = 65
    /\ \E c \in JobIds : /\ jobs[c].mode = "merge-child"
                          /\ hist[c] = <<"queued", "downloading", "failed">>

\* C21: jobs leave the queue in the order in which they were put on it,
\* across all submissions: a step removes a prefix of the queue (extended by
\* the jobs the step itself enqueues) and starts exactly the removed jobs; so
\* of two jobs the one enqueued first is started no later than the other.
C21_FifoDispatch ==
    /\ [](\A x \in Runnable : \A y \in Runnable :
            (x < y /\ calls[y].run > 0) => calls[x].run > 0)
    /\ [][LET m == Cardinality({j \in (DOMAIN jobs') \ JobIds :
                                  jobs'[j].mode # "merge-parent"})
              all == queue \o [i \in 1..m |-> Len(jobs) + i]
          IN \E k \in 0..Len(all) :
                /\ queue' = SubSeq(all, k + 1, Len(all))
                /\ \A i \in 1..k : calls'[all[i]].run = 1
                /\ \A i \in (k + 1)..Len(all) : calls'[all[i]].run = 0]_vars

\* Jobs of three submissions: the first two finished or running, the third
\* started after waiting, the fourth still waiting.
C21_Witness ==
    /\ Len(jobs) = 4
    /\ \A j \in JobIds : jobs[j].mode = "individual"
    /\ jobs[2].createdAt < jobs[3].createdAt /\ jobs[3].createdAt < jobs[4].createdAt
    /\ jobs[1].status = "completed"
    /\ jobs[3].status = "downloading"
    /\ queue = <<4>>

\* C22: in every state between two synchronous blocks a non-empty queue
\* implies activeCount = MAX_CONCURRENT: a free slot and a waiting job never
\* coexist.
C22_NoUnderDispatch ==
    /\ queue # <<>> => activeCount = MAX_CONCURRENT
    /\ \A j \in Runnable : jobs[j].status = "queued" => activeCount = MAX_CONCURRENT

\* A job finished, its slot was taken again and a job still waits.
C22_Witness ==
    /\ queue # <<>>
    /\ activeCount = MAX_CONCURRENT
    /\ Cardinality({j \in Runnable : IsTerminal(j)}) = 1
    /\ \E j \in Runnable : jobs[j].status = "generating"

\* C23: whatever the interleaving of submissions and completions, the
\* runner of a job is started at most once, a job id is in the queue at most
\* once and only while the job is queued, and a call of processQueue when
\* activeCount = MAX_CONCURRENT or the queue is empty changes nothing.
C23_DispatchIdempotent ==
    /\ \A j \in JobIds : calls[j].run <= 1 /\ calls[j].download <= 1
    /\ \A a \in 1..Len(queue) :
          /\ queue[a] \in JobIds
          /\ jobs[queue[a]].status = "queued"
          /\ calls[queue[a]].run = 0
          /\ \A b \in 1..Len(queue) : a # b => queue[a] # queue[b]
    /\ (activeCount = MAX_CONCURRENT \/ queue = <<>>) => processQueue(Cur) = Cur

\* After two completions and two re-dispatches: every job was started once
\* and nothing waits.
C23_Witness ==
    /\ Len(jobs) = MaxJobs
    /\ queue = <<>>
    /\ activeCount = MAX_CONCURRENT
    /\ \A j \in JobIds : calls[j].run = 1
    /\ Cardinality({j \in JobIds : pc[j] = "done"}) = 2

\* C24: in the step in which a merge child becomes failed its parent, unless
\* it is completed or failed already, becomes failed with the error that
\* names this child's failure, whatever the other children are doing; a
\* parent that is terminal already keeps its status.
C24_FailFast ==
    [][\A c \in JobIds :
          (/\ jobs[c].mode = "merge-child"
           /\ jobs[c].status # "failed"
           /\ jobs'[c].status = "failed") =>
              LET p == jobs[c].parentJobId
              IN IF IsTerminal(p)
                 THEN jobs'[p].status = jobs[p].status
                 ELSE /\ jobs'[p].status = "failed"
                      /\ jobs'[p].error = <<"Video fehlgeschlagen: ">> \o jobs'[c].error
                      /\ jobs'[p].message = jobs'[p].error
                      /\ calls'[p].synth = 0]_vars

\* The first of three children failed while the second was running and the
\* third was waiting: the parent is failed, the siblings run on.
C24_Witness ==
    \E p \in Parents :
        LET ch == jobs[p].childJobIds
        IN /\ Len(ch) = 3
           /\ finished = <<ch[1]>>
           /\ jobs[ch[1]].status = "failed"
           /\ jobs[p].status = "failed"
           /\ jobs[ch[2]].status = "transcribing"
           /\ jobs[ch[3]].status = "downloading"

\* C25: once a parent was failed by the failure of a child, every later
\* step (the completion or failure of any sibling) leaves every field of the
\* parent as it is.
C25_FailedParentIsFrozen ==
    [][\A p \in Parents :
          (jobs[p].status = "failed" /\ calls[p].synth = 0) => jobs'[p] = jobs[p]]_vars

\* C26: while no child of a parent with n children is failed and k < n of
\* them are completed, the parent is queued, its synthesis has not been
\* called, and its progress is 70 * k / n rounded to the nearest integer
\* (halves upwards), with the message that names k and n once a check ran.
C26_PartialProgress ==
    \A p \in Parents :
        LET n == Len(jobs[p].childJobIds)
            k == CompletedOf(p)
            r == jobs[p].progress
        IN (n >= 1 /\ ~SomeFailedOf(p) /\ k < n) =>
              /\ jobs[p].status = "queued"
              /\ hist[p] = <<"queued">>
              /\ calls[p].synth = 0
              /\ 2 * n * r <= 140 * k + n
              /\ 2 * n * r > 140 * k - n
              /\ k >= 1 => jobs[p].message =
                              <<"Transkription ", ToString(k), "/", ToString(n),
                                " fertig...">>

\* One of two children completed, the other is still running.
C26_Witness ==
    \E p \in Parents :
        /\ Len(jobs[p].childJobIds) = 2
        /\ CompletedOf(p) = 1
        /\ jobs[p].progress = 35
        /\ \E c \in ChildrenOf(p) : jobs[c].status \in InFlight

\* C27: a parent is generating or completed only if all its children are
\* completed; it becomes generating, with progress 75, in the step in which
\* its last child completes and in no other; from generating it ends
\* completed with progress 100 and the combined text and the presentation
\* URL as result, or failed with the error of the synthesis.
C27_ParentSynthesis ==
    /\ [](\A p \in Parents :
            LET ch == jobs[p].childJobIds
            IN /\ jobs[p].status \in {"generating", "completed"} =>
                     Len(ch) >= 1 /\ CompletedOf(p) = Len(ch)
               /\ jobs[p].status = "generating" =>
                     /\ jobs[p].progress = 75
                     /\ calls[p].synth = 1
                     /\ synthInput[p] = ExpectedCombined(ch, Len(ch))
               /\ jobs[p].status = "completed" =>
                     /\ jobs[p].progress = 100
                     /\ jobs[p].result = [transcript |-> ExpectedCombined(ch, Len(ch)),
                                          presentationUrl |-> GammaUrl]
                     /\ hist[p] = <<"queued", "generating", "completed">>
               /\ (jobs[p].status = "failed" /\ calls[p].synth = 1) =>
                     /\ jobs[p].error = GenerateError
                     /\ hist[p] = <<"queued", "generating", "failed">>)
    /\ [][\A p \in Parents :
            LET ch == jobs[p].childJobIds
                before == \A i \in 1..Len(ch) : jobs[ch[i]].status = "completed"
                after == \A i \in 1..Len(ch) : jobs'[ch[i]].status = "completed"
            IN /\ (Len(ch) >= 1 /\ ~before /\ after) =>
                     jobs'[p].status = "generating" /\ jobs'[p].progress = 75
               /\ (jobs[p].status # "generating" /\ jobs'[p].status = "generating") =>
                     ~before /\ after
               /\ (jobs[p].status = "generating" /\ jobs'[p].status # "generating") =>
                     jobs'[p].status \in Terminal]_vars

\* Both children completed and the synthesis of the parent failed.
C27_Witness ==
    \E p \in Parents :
        /\ Len(jobs[p].childJobIds) = 2
        /\ CompletedOf(p) = 2
        /\ jobs[p].status = "failed"
        /\ calls[p].synth = 1

\* C28: after a parent was failed by the failure of a child its other
\* children are not cancelled: the step that fails the parent leaves each of
\* them as it is or starts it, those running take a slot like any job, and
\* each of them, waiting or running, goes on to its own completed or failed.
C28_SiblingsRunOn ==
    /\ [][\A p \in Parents :
            (jobs[p].status # "failed" /\ jobs'[p].status = "failed"
                /\ calls'[p].synth = 0) =>
              \A c \in ChildrenOf(p) :
                 \/ jobs'[c] = jobs[c] /\ pc'[c] = pc[c]
                 \/ jobs[c].status # "failed" /\ jobs'[c].status = "failed"
                 \/ /\ jobs[c].status = "queued" /\ jobs'[c].status = "downloading"
                    /\ pc'[c] = "download"]_vars
    /\ [](\A p \in Parents :
            (jobs[p].status = "failed" /\ calls[p].synth = 0) =>
                /\ activeCount >= Cardinality({c \in ChildrenOf(p) :
                                                  jobs[c].status \in InFlight})
                /\ \A c \in ChildrenOf(p) :
                      /\ jobs[c].status \in InFlight <=> pc[c] \notin {"none", "done"}
                      /\ jobs[c].status = "queued" =>
                            \E q \in 1..Len(queue) : queue[q] = c)
    /\ \A c \in 1..MaxJobs :
         (c \in JobIds /\ jobs[c].mode = "merge-child" /\ ~IsTerminal(c))
            ~> (c \in JobIds /\ IsTerminal(c) /\ calls[c].run = 1 /\ pc[c] = "done")

\* The first of three children failed while the third was waiting; the
\* other two went on and completed.
C28_Witness ==
    \E p \in Parents :
        LET ch == jobs[p].childJobIds
        IN /\ Len(ch) = 3
           /\ finished = <<ch[1], ch[2], ch[3]>>
           /\ jobs[ch[1]].status = "failed"
           /\ jobs[ch[2]].status = "completed"
           /\ jobs[ch[3]].status = "completed"
           /\ hist[p] = <<"queued", "failed">>

\* C29: a step of the runner (or of the synthesis of a parent) that drives
\* job j changes the record of no other job, except that the step in which
\* j's runner returns may change j's parent through the merge check and
\* starts waiting jobs from the queue; activeCount and the queue change only
\* in that step; so the failure of a job changes no field of another
\* individual job or of a job of another merge, and after the step no job
\* waits while a slot is free.
C29_RunnerFrame ==
    [][\A j \in JobIds :
          (pc[j] \notin {"none", "done"} /\ pc'[j] # pc[j]) =>
              /\ DOMAIN jobs' = JobIds
              /\ pc'[j] # "done" => activeCount' = activeCount /\ queue' = queue
              /\ \A k \in JobIds \ {j} :
                    \/ jobs'[k] = jobs[k] /\ pc'[k] = pc[k]
                    \/ /\ pc'[j] = "done"
                       /\ jobs[j].mode = "merge-child"
                       /\ k = jobs[j].parentJobId
                    \/ /\ pc'[j] = "done"
                       /\ jobs[j].mode \in {"individual", "merge-child"}
                       /\ jobs[k].status = "queued"
                       /\ queue # <<>> /\ k = Head(queue)
                       /\ jobs'[k] = [jobs[k] EXCEPT
                                         !.status = "downloading",
                                         !.message = <<"Starte Video-Download von Loom...">>]
              /\ queue' # <<>> => activeCount' = MAX_CONCURRENT]_vars

\* The first of three individual jobs failed; the second is untouched and
\* running, the third was started from the queue.
C29_Witness ==
    /\ Len(jobs) = 3
    /\ \A j \in JobIds : jobs[j].mode = "individual"
    /\ jobs[1].status = "failed" /\ pc[1] = "done"
    /\ jobs[2].status = "transcribing"
    /\ jobs[3].status = "downloading" /\ jobs[3].createdAt = jobs[1].createdAt
    /\ queue = <<>>

\* C30: in one wait on a remote operation, of the transcription as of the
\* synthesis, the status check is invoked at most the maximum attempt count
\* (60) times.
C30_ChecksWithinMaxAttempts ==
    /\ poll.kind = "transcribe" => poll.checks <= MAX_POLLING_ATTEMPTS_transcriber
    /\ poll.kind = "generate" => poll.checks <= MAX_POLLING_ATTEMPTS_generator

\* The codes of the remote-failure error and of the timeout error of a wait,
\* and the least number of checks a wait makes before it times out.
FailureCode(w) == IF w.kind = "transcribe" THEN "PROCESSING_FAILED" ELSE "GENERATION_FAILED"
TimeoutCode(w) == IF w.kind = "transcribe" THEN "PROCESSING_TIMEOUT" ELSE "GENERATION_TIMEOUT"
MaxAttempts(w) ==
    IF w.kind = "transcribe" THEN MAX_POLLING_ATTEMPTS_transcriber
    ELSE MAX_POLLING_ATTEMPTS_generator

\* The first non-pending answer decides the wait w.
DecidedByFirstAnswer(w) ==
    /\ w.at # "done" =>
          /\ w.last \in {"", "pending"}
          /\ w.code = ""
          /\ w.pendings = IF w.at = "check" THEN w.checks - 1 ELSE w.checks
    /\ w.at = "done" /\ w.last = "succeeded" =>
          w.code = "success" /\ w.pendings = w.checks - 1
    /\ w.at = "done" /\ w.last = "failed" =>
          w.code = FailureCode(w) /\ w.pendings = w.checks - 1
    /\ w.at = "done" /\ w.last = "pending" =>
          /\ w.code = TimeoutCode(w)
          /\ w.pendings = w.checks
          /\ w.checks >= MaxAttempts(w)
    /\ w.code = TimeoutCode(w) => w.last = "pending"
    /\ TimeoutCode(w) # FailureCode(w)

\* A step in which a check answers success or failure ends the wait without
\* another check, and a wait that has ended takes no step.
AnswerEndsWait ==
    /\ (poll'.last \in {"succeeded", "failed"})
          => (poll'.at = "done" /\ poll'.checks = poll.checks)
    /\ (poll.at = "done") => (poll' = poll)

\* C31: the outcome of a wait is decided by the first status check that does
\* not answer pending: a first answer of success ends the wait with the
\* value, a first answer of failure ends it with the remote-failure error,
\* and in both cases no further check is made; a wait all of whose checks
\* answer pending makes them up to the limit and ends with the timeout
\* error, whose code is not the code of the remote-failure error.
C31_FirstAnswerDecides ==
    /\ [](poll.kind # "none" => DecidedByFirstAnswer(poll))
    /\ [][AnswerEndsWait]_vars

\* A wait that three checks answered pending and the fourth failed.
C31_Witness ==
    /\ poll.at = "done"
    /\ poll.last = "failed"
    /\ poll.pendings = 3
    /\ poll.checks = 4

\* What kind of result a wait ended with.
ResultClass(w) ==
    IF w.code = "success" THEN "value"
    ELSE IF w.code = FailureCode(w) THEN "remote failure"
    ELSE IF w.code = TimeoutCode(w) THEN "timeout"
    ELSE "other"

\* C32: the transcription wait and the synthesis wait are the same
\* primitive: answered with the same sequence of check outcomes, they make
\* the same number of checks and of sleeps and end with the same class of
\* result.
C32_SamePrimitive ==
    (poll.kind = "pair" /\ poll.t.at = "done" /\ poll.g.at = "done") =>
        /\ poll.t.checks = poll.g.checks
        /\ poll.t.sleeps = poll.g.sleeps
        /\ ResultClass(poll.t) = ResultClass(poll.g)

\* The calls of job j that start its runner or one of its stages.
StageCalls(c) == <<c.run, c.download, c.transcribe, c.synth>>

\* A job one of whose stages has failed is not started again and has no
\* stage invoked again.
NoStageAfterFailure ==
    \A j \in JobIds :
        (jobs[j].status = "failed" \/ loc[j].caught # <<>>) =>
            /\ StageCalls(calls'[j]) = StageCalls(calls[j])
            /\ \A a \in 1..Len(queue') : queue'[a] # j

\* C33: no failed stage is retried, whatever the retryable flag of its
\* error: for every job the runner, the download, the transcription and the
\* synthesis are each invoked at most once, and after a failure none of them
\* is invoked again for that job.
C33_NoRetry ==
    /\ [](\A j \in JobIds : \A a \in 1..4 : StageCalls(calls[j])[a] <= 1)
    /\ [][NoStageAfterFailure]_vars

\* Every job has ended, one of them on a retryable error of its
\* transcription, and a job that had to wait for a slot has completed.
C33_Witness ==
    /\ JobIds # {}
    /\ \A j \in JobIds : jobs[j].mode # "merge-parent" /\ pc[j] = "done"
    /\ \E j, k \in JobIds :
          /\ jobs[j].status = "failed"
          /\ loc[j].caught = TranscribeError /\ retryable(loc[j].caught)
          /\ StageCalls(calls[j]) = <<1, 1, 1, 0>>
          /\ jobs[k].status = "completed"
          /\ k > MAX_CONCURRENT

\* No merge check has run on job j: it is no merge parent, or none of its
\* children has returned.
Untouched(j) ==
    jobs[j].mode = "merge-parent" => \A a \in 1..Len(finished) : finished[a] \notin ChildrenOf(j)

\* C34: the progress of every job is an integer from 0 to 100; it is 0 while
\* the job is queued and no merge check has touched it, and 100 once the job
\* is completed.
C34_ProgressRange ==
    \A j \in JobIds :
        /\ jobs[j].progress \in 0..100
        /\ (jobs[j].status = "queued" /\ Untouched(j)) => jobs[j].progress = 0
        /\ jobs[j].status = "completed" => jobs[j].progress = 100

\* A merge of two: the first child is completed at 100, the parent is queued
\* with the progress the merge check gave it, the second child is in flight;
\* next to them a queued job that no merge check has touched is at 0.
C34_Witness ==
    \E p \in Parents, q \in JobIds :
        LET ch == jobs[p].childJobIds
        IN /\ Len(ch) = 2
           /\ jobs[ch[1]].status = "completed" /\ jobs[ch[1]].progress = 100
           /\ jobs[p].status = "queued" /\ jobs[p].progress = 35
           /\ jobs[ch[2]].status = "transcribing" /\ jobs[ch[2]].progress \in 51..99
           /\ jobs[q].status = "queued" /\ Untouched(q) /\ jobs[q].progress = 0

\* The children of p whose status becomes completed in a step.
Completing(p) ==
    {c \in ChildrenOf(p) : jobs[c].status # "completed" /\ jobs'[c].status = "completed"}

\* The synthesis of parent p is invoked in exactly the steps in which one of
\* its children completes and leaves none that is not completed.
LastCompletionTriggers ==
    \A p \in Parents :
        /\ calls'[p].synth # calls[p].synth =>
              /\ calls'[p].synth = calls[p].synth + 1
              /\ Cardinality(Completing(p)) = 1
              /\ \A c \in ChildrenOf(p) : jobs'[c].status = "completed"
        /\ (Completing(p) # {} /\ \A c \in ChildrenOf(p) : jobs'[c].status = "completed")
              => calls'[p].synth = calls[p].synth + 1
        /\ \A c \in ChildrenOf(p) :
              (jobs[c].status \notin Terminal /\ jobs'[c].status = "failed")
                  => calls'[p].synth = calls[p].synth

\* C35: for every merge parent the synthesis is invoked at most once, and
\* only when all its children are completed; the one child termination that
\* invokes it is the completion of the last child, and no other termination
\* of a child does.
C35_SynthesisOnceAfterLastChild ==
    /\ [](\A p \in Parents :
            /\ calls[p].synth <= 1
            /\ calls[p].synth = 1 => \A c \in ChildrenOf(p) : jobs[c].status = "completed")
    /\ [][LastCompletionTriggers]_vars

\* The synthesis of a merge of two was invoked once, when the first child
\* completed after the second, and the parent is completed.
C35_Witness ==
    \E p \in Parents :
        LET ch == jobs[p].childJobIds
        IN /\ Len(ch) = 2
           /\ finished = <<ch[2], ch[1]>>
           /\ calls[p].synth = 1
           /\ jobs[p].status = "completed"

\* The positions in childJobIds of the failed children of p.
FailedPositions(p) ==
    {i \in 1..Len(jobs[p].childJobIds) : jobs[jobs[p].childJobIds[i]].status = "failed"}

\* C36: when several children of a merge have failed, the error of the parent
\* is the one of the failed child that comes first in childJobIds, whichever
\* of them failed first in time, and it carries the message of that child
\* alone.
C36_FirstFailedInOrder ==
    \A p \in Parents :
        Cardinality(FailedPositions(p)) >= 2 =>
            LET first == CHOOSE i \in FailedPositions(p) :
                             \A k \in FailedPositions(p) : i <= k
                c == jobs[p].childJobIds[first]
            IN /\ jobs[p].status = "failed"
               /\ jobs[p].error = <<"Video fehlgeschlagen: ">> \o jobs[c].error
               /\ jobs[p].message = jobs[p].error

\* The second child failed first and the first child after it, with another
\* error: the parent carries the error of the first child.
C36_Witness ==
    \E p \in Parents :
        LET ch == jobs[p].childJobIds
        IN /\ Len(ch) >= 2
           /\ Len(finished) >= 2
           /\ finished[1] = ch[2] /\ finished[2] = ch[1]
           /\ jobs[ch[1]].status = "failed" /\ jobs[ch[2]].status = "failed"
           /\ jobs[ch[1]].error # jobs[ch[2]].error
           /\ jobs[p].error = <<"Video fehlgeschlagen: ">> \o jobs[ch[1]].error

\* The merge parents created from an empty list.
Childless == {p \in Parents : Len(jobs[p].childJobIds) = 0}

\* C37: a merge submitted with an empty list creates a parent without
\* children; no job names it as its parent, so no merge check is ever run on
\* it, it is never put on the queue, and it stays queued with progress 0 and
\* without a synthesis for ever.
C37_EmptyMergeStaysQueued ==
    /\ [](\A p \in Childless :
            /\ jobs[p].status = "queued"
            /\ jobs[p].progress = 0
            /\ hist[p] = <<"queued">>
            /\ calls[p].synth = 0 /\ calls[p].run = 0
            /\ \A a \in 1..Len(queue) : queue[a] # p
            /\ \A j \in JobIds :
                  "parentJobId" \in DOMAIN jobs[j] => jobs[j].parentJobId # p)
    /\ [][\A p \in Childless : jobs'[p] = jobs[p] /\ pc'[p] = pc[p]]_vars

\* A merge of no video was submitted first; a merge of two submitted after it
\* has completed, and nothing is running or waiting any more.
C37_Witness ==
    /\ 1 \in Childless
    /\ \E p \in Parents :
          Len(jobs[p].childJobIds) = 2 /\ jobs[p].status = "completed"
    /\ activeCount = 0 /\ queue = <<>>
    /\ jobs[1].status = "queued"

\* The codes handleGammaError classifies an error of the HTTP client as.
ClassifiedCodes ==
    {"AUTH_FAILED", "INSUFFICIENT_CREDITS", "RATE_LIMITED", "API_ERROR", "UNKNOWN_ERROR"}

\* A step of the synthesis wait in which the status check is rejected ends
\* the wait with a classified error and starts neither a check nor a sleep.
RejectionEndsWait ==
    (poll.kind = "generate" /\ poll.at = "check" /\ poll'.last = "rejected") =>
        /\ poll'.at = "done"
        /\ poll'.code \in ClassifiedCodes
        /\ poll'.checks = poll.checks
        /\ poll'.sleeps = poll.sleeps
        /\ poll'.attempts = poll.attempts

\* C38: in the synthesis wait a transport or HTTP error of a status check
\* ends the wait at once with a classified error: the check is not repeated
\* and the loop does not go on to the next attempt.
C38_RejectionEndsSynthesisWait ==
    /\ [][RejectionEndsWait]_vars
    /\ []((poll.kind = "generate" /\ poll.last = "rejected") =>
             (poll.at = "done" /\ poll.code \in ClassifiedCodes))

\* The third status check of a synthesis wait was rejected without a
\* response, after two pending answers and two sleeps.
C38_Witness ==
    /\ poll.kind = "generate"
    /\ poll.last = "rejected"
    /\ poll.code = "UNKNOWN_ERROR"
    /\ poll.checks = 3 /\ poll.sleeps = 2 /\ poll.attempts = 2

====
